---- MODULE Spec2Model ----
(***************************************************************************)
(* Entropic Gromov-Wasserstein drivers of GW_adjusted.py:                  *)
(*   gromov_wasserstein_adjusted, gromov_wasserstein_adjusted_norm,        *)
(*   gromov_wasserstein_adjusted_combined, and the loss-tensor builders    *)
(*   tensor_square_loss_mine, tensor_square_loss_mine_combined.            *)
(*                                                                         *)
(* Numbers.  A float64 array is a record [nan, n, d]: when nan is FALSE    *)
(* the array is the integer matrix n divided by the positive integer d     *)
(* (exact rational arithmetic); when nan is TRUE every entry is NaN.  A    *)
(* float64 scalar is the same record with an integer n.  The inputs are    *)
(* non-negative, so the only way a NaN arises is 0/0 on an all-zero        *)
(* cost_mat, which makes every entry NaN; NaN then propagates through      *)
(* every arithmetic operation and every comparison with NaN is false.      *)
(***************************************************************************)
EXTENDS Integers, Sequences, FiniteSets, TLC

VARIABLES
    driver,        \* which of the three drivers is being called
    loss_fun,      \* argument loss_fun
    alpha_linear,  \* argument alpha_linear (scalar)
    max_iter,      \* argument max_iter
    tol,           \* argument tol (scalar)
    log_on,        \* TRUE: log is a mapping with an 'err' list; FALSE: log=False
    np_err,        \* numpy floating-point error mode of the process
    heap,          \* array objects: caller-owned C1, C2, cost_mat, p, q and
                   \* the driver's own cost_mat1 / cost_mat_norm and tens
    binding,       \* local names that are bound, and the object each names
    T,             \* local T
    Tprev,         \* local Tprev
    cpt,           \* local cpt
    err,           \* local err (scalar)
    log,           \* log['err']
    pc,            \* position in the driver
    fault,         \* the exception that left the driver, or "none"
    result,        \* the returned coupling
    calls,         \* number of sinkhorn invocations so far
    tensors,       \* number of loss tensors built so far
    solver_in,     \* the cost handed to the last sinkhorn invocation
    solver_out,    \* the coupling the last sinkhorn invocation returned
    nan_in,        \* TRUE once a NaN cost was handed to sinkhorn
    checked,       \* every error value computed so far, in order
    entered        \* number of times the loop body was entered

inputs == <<driver, loss_fun, alpha_linear, max_iter, tol, log_on, np_err>>
locals == <<heap, binding, T, Tprev, cpt, err, log>>
ghosts == <<calls, tensors, solver_in, solver_out, nan_in, checked, entered>>
vars == <<inputs, locals, pc, fault, result, ghosts>>

----------------------------------------------------------------------------
(* Bounds of the model *)

MaxIterBound == 12   \* max_iter ranges over 1..MaxIterBound
MaxC == 1            \* tensor builder: entries of C1 in -1..MaxC, of C2 in 0..MaxC

----------------------------------------------------------------------------
(* Exact arithmetic on arrays and scalars *)

RECURSIVE SumTo(_, _)
SumTo(f, k) == IF k = 0 THEN 0 ELSE f[k] + SumTo(f, k - 1)

Rows(A) == DOMAIN A
Cols(A) == DOMAIN A[1]
Entries(A) == {A[i][j] : i \in Rows(A), j \in Cols(A)}
IMin(A) == CHOOSE x \in Entries(A) : \A y \in Entries(A) : x <= y
IMax(A) == CHOOSE x \in Entries(A) : \A y \in Entries(A) : x >= y
IDot(A, B) ==
    [i \in Rows(A) |-> [j \in Cols(B) |->
        SumTo([k \in Rows(B) |-> A[i][k] * B[k][j]], Len(B))]]
ITranspose(A) == [j \in Cols(A) |-> [i \in Rows(A) |-> A[i][j]]]
IScale(k, A) == [i \in Rows(A) |-> [j \in Cols(A) |-> k * A[i][j]]]
IPlus(A, B) == [i \in Rows(A) |-> [j \in Cols(A) |-> A[i][j] + B[i][j]]]

NaNArr == [nan |-> TRUE, n |-> <<>>, d |-> 1]
NaNNum == [nan |-> TRUE, n |-> 0, d |-> 1]
Arr(n, d) == [nan |-> FALSE, n |-> n, d |-> d]
Num(n, d) == [nan |-> FALSE, n |-> n, d |-> d]

\* a.dot(b)
Dot(A, B) == IF A.nan \/ B.nan THEN NaNArr ELSE Arr(IDot(A.n, B.n), A.d * B.d)
\* a.T
Transpose(A) == IF A.nan THEN NaNArr ELSE Arr(ITranspose(A.n), A.d)
\* -a
Neg(A) == IF A.nan THEN NaNArr ELSE Arr(IScale(-1, A.n), A.d)
\* a + b, a - b (arrays of one shape)
Plus(A, B) ==
    IF A.nan \/ B.nan THEN NaNArr
    ELSE Arr(IPlus(IScale(B.d, A.n), IScale(A.d, B.n)), A.d * B.d)
Minus(A, B) == Plus(A, Neg(B))
\* np.multiply(a, b)
Multiply(A, B) ==
    IF A.nan \/ B.nan THEN NaNArr
    ELSE Arr([i \in Rows(A.n) |-> [j \in Cols(A.n) |-> A.n[i][j] * B.n[i][j]]],
             A.d * B.d)
\* s * a, a * s for a scalar s
Scale(s, A) == IF s.nan \/ A.nan THEN NaNArr ELSE Arr(IScale(s.n, A.n), s.d * A.d)
\* a - s for a scalar s
Shift(A, s) ==
    IF s.nan \/ A.nan THEN NaNArr
    ELSE Arr([i \in Rows(A.n) |-> [j \in Cols(A.n) |-> s.d * A.n[i][j] - A.d * s.n]],
             A.d * s.d)
\* a.min(), a.max()
ArrMin(A) == IF A.nan THEN NaNNum ELSE Num(IMin(A.n), A.d)
ArrMax(A) == IF A.nan THEN NaNNum ELSE Num(IMax(A.n), A.d)
\* 1 - s
OneMinus(s) == IF s.nan THEN NaNNum ELSE Num(s.d - s.n, s.d)
\* np.outer(p, q)
Outer(p, q) ==
    Arr([i \in DOMAIN p.n |-> [j \in DOMAIN q.n |-> p.n[i] * q.n[j]]], p.d * q.d)

\* comparisons of scalars; every comparison with NaN is false
Gt(a, b) == ~a.nan /\ ~b.nan /\ a.n * b.d > b.n * a.d
Le(a, b) == ~a.nan /\ ~b.nan /\ a.n * b.d <= b.n * a.d
NumEq(a, b) == ~a.nan /\ ~b.nan /\ a.n * b.d = b.n * a.d
\* equality of the values two arrays denote (NaN equals nothing)
ArrEq(A, B) ==
    /\ ~A.nan /\ ~B.nan
    /\ Rows(A.n) = Rows(B.n) /\ Cols(A.n) = Cols(B.n)
    /\ \A i \in Rows(A.n) : \A j \in Cols(A.n) : A.n[i][j] * B.d = B.n[i][j] * A.d

\* the exact square root of a perfect square
ISqrt(s) == CHOOSE r \in 0..s : r * r = s
SumSq(A) ==
    SumTo([i \in Rows(A) |-> SumTo([j \in Cols(A) |-> A[i][j] * A[i][j]], Len(A[1]))],
          Len(A))
\* np.linalg.norm(a): the Frobenius norm
Norm(A) == IF A.nan THEN NaNNum ELSE Num(ISqrt(SumSq(A.n)), A.d)

----------------------------------------------------------------------------
(* The loss-tensor builders *)

\* line 83: -np.dot(h1(C1), T).dot(h2(C2).T), h1 and h2 the identity
tensor_raw(c1, c2, t) == Neg(Dot(Dot(c1, t), Transpose(c2)))
\* lines 84, 140: tens -= tens.min()
min_shift(tens) == Shift(tens, ArrMin(tens))

tensor_no_shift(c1, c2, t) == tensor_raw(c1, c2, t)

tensor_square_loss_mine(c1, c2, t) == min_shift(tensor_raw(c1, c2, t))

tensor_square_loss_mine_combined(c1, c2, t, cost_mat, alpha) ==
    LET temp_here_nonlinear == Dot(Dot(c1, t), Transpose(c2))
        temp_here_linear ==
            Scale(ArrMax(temp_here_nonlinear), Multiply(cost_mat, t))
    IN  min_shift(Minus(Neg(temp_here_nonlinear), Scale(alpha, temp_here_linear)))

----------------------------------------------------------------------------
(* The entropic solver ot.bregman.sinkhorn(p, q, M, epsilon): an external   *)
(* collaborator.  Any coupling with marginals a and b may come back; a NaN  *)
(* cost comes back as a NaN coupling (K = exp(-M/epsilon) is NaN).          *)

Plans(a, b) ==
    LET top == IMax(<<[i \in DOMAIN a.n |-> a.n[i] * b.d]>>)
    IN  {X \in [DOMAIN a.n -> [DOMAIN b.n -> 0..top]] :
            /\ \A i \in DOMAIN a.n : SumTo(X[i], Len(b.n)) = a.n[i] * b.d
            /\ \A j \in DOMAIN b.n :
                   SumTo([i \in DOMAIN a.n |-> X[i][j]], Len(a.n)) = b.n[j] * a.d}

sinkhorn(a, b, M) ==
    IF M.nan THEN {NaNArr} ELSE {Arr(X, a.d * b.d) : X \in Plans(a, b)}

----------------------------------------------------------------------------
(* Pieces of the drivers *)

CheckEvery == 10     \* `if cpt % 10 == 0`
ErrSentinel == 1     \* `err = 1`

NoArr == Arr(<<>>, 1)          \* the content of a name that is not bound
One == Num(1, 1)

\* cost_mat.max() is zero
max_is_zero(cost_mat) == NumEq(ArrMax(cost_mat), Num(0, 1))

\* cost_mat / cost_mat.max() for a non-negative cost_mat.  A zero maximum
\* means an all-zero array: every entry is 0/0, which numpy evaluates to
\* NaN (with a RuntimeWarning) unless the error mode is 'raise'.
divide_by_max(cost_mat) ==
    IF max_is_zero(cost_mat) THEN NaNArr
    ELSE Arr(IScale(ArrMax(cost_mat).d, cost_mat.n), ArrMax(cost_mat).n)

\* the division raises FloatingPointError
divide_raises(cost_mat, mode) == mode = "raise" /\ max_is_zero(cost_mat)

\* cost_mat1 = cost_mat / cost_mat.max(): a new array, cost_mat untouched
normalize_in_place(h) ==
    [h EXCEPT !.cost_mat = divide_by_max(h.cost_mat),
              !.cost_mat1 = divide_by_max(h.cost_mat)]

normalize(h) == [h EXCEPT !.cost_mat1 = divide_by_max(h.cost_mat)]

\* while (err > tol and cpt < max_iter)
loop_guard_off_by_one(e, t, c, m) == Gt(e, t) /\ c <= m

loop_guard(e, t, c, m) == Gt(e, t) /\ c < m

\* if loss_fun == 'square_loss'
dispatch_any(lf) == TRUE

dispatches_square_loss(lf) == lf = "square_loss"

\* if alpha_linear == 1
never_shortcut(a) == FALSE

is_linear_shortcut(a) == NumEq(a, One)

\* if cpt % 10 == 0
check_always(c) == TRUE

check_every_fifth(c) == c % 5 = 0

is_check_iter(c) == c % CheckEvery = 0

----------------------------------------------------------------------------
(* Inputs *)

Drivers == {"adjusted", "norm", "combined"}
LossFuns == {"square_loss", "kl_loss"}
Alphas == {Num(0, 1), Num(1, 2), Num(1, 1)}
Tols == {Num(1, 4), Num(1, 1)}
ErrModes == {"warn", "raise"}
CostMats == {Arr(<<<<0, 0>>, <<0, 0>>>>, 1), Arr(<<<<0, 2>>, <<1, 0>>>>, 1)}
Marginal == [nan |-> FALSE, n |-> <<1, 1>>, d |-> 2]

Heap0(cost_mat) ==
    [C1 |-> Arr(<<<<0, 1>>, <<1, 0>>>>, 1),
     C2 |-> Arr(<<<<0, 2>>, <<1, 0>>>>, 1),
     cost_mat |-> cost_mat,
     p |-> Marginal,
     q |-> Marginal,
     cost_mat1 |-> NoArr,
     cost_mat_norm |-> NoArr,
     tens |-> NoArr,
     tens_all |-> NoArr]

Unbound == [cost_mat1 |-> "unbound", cost_mat_norm |-> "unbound",
            tens |-> "unbound", tens_all |-> "unbound"]

\* the arrays the caller owns
CallerOwned(h) == <<h.C1, h.C2, h.cost_mat, h.p, h.q>>

Init ==
    /\ driver \in Drivers
    /\ loss_fun \in LossFuns
    /\ alpha_linear \in Alphas
    /\ max_iter \in 1..MaxIterBound
    /\ tol \in Tols
    /\ log_on \in BOOLEAN
    /\ np_err \in ErrModes
    /\ heap \in {Heap0(c) : c \in CostMats}
    /\ binding = Unbound
    /\ T = NoArr
    /\ Tprev = NoArr
    /\ cpt = 0
    /\ err = Num(0, 1)
    /\ log = <<>>
    /\ pc = "entry"
    /\ fault = "none"
    /\ result = NoArr
    /\ calls = 0
    /\ tensors = 0
    /\ solver_in = NoArr
    /\ solver_out = NoArr
    /\ nan_in = FALSE
    /\ checked = <<>>
    /\ entered = 0

----------------------------------------------------------------------------
(* The drivers, step by step *)

Raise(kind) ==
    /\ pc' = "fault"
    /\ fault' = kind

\* T = np.outer(p, q); cpt = 0; err = 1
Initialization ==
    /\ T' = Outer(heap.p, heap.q)
    /\ cpt' = 0
    /\ err' = Num(ErrSentinel, 1)

\* gromov_wasserstein_adjusted, lines 321-330, and
\* gromov_wasserstein_adjusted_combined, lines 532-541
Prologue ==
    /\ pc = "entry"
    /\ driver \in {"adjusted", "combined"}
    /\ Initialization
    /\ IF divide_raises(heap.cost_mat, np_err)
       THEN /\ Raise("FloatingPointError")
            /\ UNCHANGED <<heap, binding>>
       ELSE /\ heap' = normalize(heap)
            /\ binding' = [binding EXCEPT !.cost_mat1 = "cost_mat1"]
            /\ pc' = "while"
            /\ UNCHANGED fault
    /\ UNCHANGED <<inputs, Tprev, log, result, ghosts>>

\* gromov_wasserstein_adjusted_norm, lines 424-438
Prologue_norm ==
    /\ pc = "entry"
    /\ driver = "norm"
    /\ Initialization
    /\ IF divide_raises(heap.cost_mat, np_err)
       THEN \* except: cost_mat_norm = cost_mat
            /\ binding' = [binding EXCEPT !.cost_mat_norm = "cost_mat"]
            /\ UNCHANGED heap
       ELSE /\ heap' = [heap EXCEPT !.cost_mat_norm = divide_by_max(heap.cost_mat)]
            /\ binding' = [binding EXCEPT !.cost_mat_norm = "cost_mat_norm"]
    /\ pc' = IF is_linear_shortcut(alpha_linear) THEN "shortcut" ELSE "while"
    /\ UNCHANGED <<inputs, Tprev, log, fault, result, ghosts>>

\* one invocation of sinkhorn on the cost M
Invoke(M) ==
    /\ \E out \in sinkhorn(heap.p, heap.q, M) :
          /\ T' = out
          /\ solver_out' = out
    /\ solver_in' = M
    /\ calls' = calls + 1
    /\ nan_in' = (nan_in \/ M.nan)

\* line 439: T = sinkhorn(p, q, cost_mat_norm, epsilon)
Shortcut ==
    /\ pc = "shortcut"
    /\ Invoke(heap[binding.cost_mat_norm])
    /\ pc' = "return"
    /\ UNCHANGED <<inputs, heap, binding, Tprev, cpt, err, log, fault, result,
                   tensors, checked, entered>>

\* lines 332, 441, 543
LoopTest ==
    /\ pc = "while"
    /\ IF loop_guard(err, tol, cpt, max_iter)
       THEN /\ pc' = "body"
            /\ entered' = entered + 1
       ELSE /\ pc' = "return"
            /\ UNCHANGED entered
    /\ UNCHANGED <<inputs, locals, fault, result, calls, tensors, solver_in,
                   solver_out, nan_in, checked>>

\* the tensor the driver's builder returns for the current T
built_tensor ==
    IF driver = "combined"
    THEN tensor_square_loss_mine_combined(heap.C1, heap.C2, T, heap.cost_mat,
                                          alpha_linear)
    ELSE tensor_square_loss_mine(heap.C1, heap.C2, T)

\* lines 334-337, 443-446, 545-548
BuildTensor ==
    /\ pc = "body"
    /\ Tprev' = T
    /\ IF dispatches_square_loss(loss_fun)
       THEN /\ heap' = [heap EXCEPT !.tens = built_tensor]
            /\ binding' = [binding EXCEPT !.tens = "tens"]
            /\ tensors' = tensors + 1
       ELSE UNCHANGED <<heap, binding, tensors>>
    /\ pc' = IF driver = "combined" THEN "solve" ELSE "blend"
    /\ UNCHANGED <<inputs, T, cpt, err, log, fault, result, calls, solver_in,
                   solver_out, nan_in, checked, entered>>

\* lines 339-340: cost_mat2 = cost_mat1 * tens.max(); tens += alpha_linear*cost_mat2
blend_adjusted(h, b, alpha) ==
    LET cost_mat2 == Scale(ArrMax(h[b.tens]), h[b.cost_mat1])
    IN  [h EXCEPT ![b.tens] = Plus(@, Scale(alpha, cost_mat2))]

\* line 448: tens_all = (1-alpha_linear)*tens + alpha_linear*cost_mat_norm
blend_norm(h, b, alpha) ==
    [h EXCEPT !.tens_all = Plus(Scale(OneMinus(alpha), h[b.tens]),
                                Scale(alpha, h[b.cost_mat_norm]))]

Blend ==
    /\ pc = "blend"
    /\ driver = "adjusted"
    /\ IF binding.tens = "unbound"
       THEN /\ Raise("UnboundLocalError")
            /\ UNCHANGED heap
       ELSE /\ heap' = blend_adjusted(heap, binding, alpha_linear)
            /\ pc' = "solve"
            /\ UNCHANGED fault
    /\ UNCHANGED <<inputs, binding, T, Tprev, cpt, err, log, result, ghosts>>

Blend_norm ==
    /\ pc = "blend"
    /\ driver = "norm"
    /\ IF binding.tens = "unbound"
       THEN /\ Raise("UnboundLocalError")
            /\ UNCHANGED <<heap, binding>>
       ELSE /\ heap' = blend_norm(heap, binding, alpha_linear)
            /\ binding' = [binding EXCEPT !.tens_all = "tens_all"]
            /\ pc' = "solve"
            /\ UNCHANGED fault
    /\ UNCHANGED <<inputs, T, Tprev, cpt, err, log, result, ghosts>>

\* the name the driver hands to sinkhorn
solver_arg == IF driver = "norm" THEN "tens_all" ELSE "tens"

\* lines 341, 449, 550: T = sinkhorn(p, q, tens, epsilon)
Solve ==
    /\ pc = "solve"
    /\ IF binding[solver_arg] = "unbound"
       THEN /\ Raise("UnboundLocalError")
            /\ UNCHANGED <<T, calls, solver_in, solver_out, nan_in>>
       ELSE /\ Invoke(heap[binding[solver_arg]])
            /\ pc' = "check"
            /\ UNCHANGED fault
    /\ UNCHANGED <<inputs, heap, binding, Tprev, cpt, err, log, result, tensors,
                   checked, entered>>

\* lines 343-357, 451-465, 552-566
Check ==
    /\ pc = "check"
    /\ IF is_check_iter(cpt)
       THEN /\ err' = Norm(Minus(T, Tprev))
            /\ log' = IF log_on THEN Append(log, err') ELSE log
            /\ checked' = Append(checked, err')
       ELSE UNCHANGED <<err, log, checked>>
    /\ cpt' = cpt + 1
    /\ pc' = "while"
    /\ UNCHANGED <<inputs, heap, binding, T, Tprev, fault, result, calls, tensors,
                   solver_in, solver_out, nan_in, entered>>

\* lines 359-362, 467-470, 568-571
Return ==
    /\ pc = "return"
    /\ result' = T
    /\ pc' = "done"
    /\ UNCHANGED <<inputs, locals, fault, ghosts>>

Next ==
    \/ Prologue
    \/ Prologue_norm
    \/ Shortcut
    \/ LoopTest
    \/ BuildTensor
    \/ Blend
    \/ Blend_norm
    \/ Solve
    \/ Check
    \/ Return

Spec == Init /\ [][Next]_vars

----------------------------------------------------------------------------
(* tensor_square_loss_mine on its own: the inputs are drawn, the builder is *)
(* applied, and the min-shift is applied once more to its result.           *)

SquareMats(lo, hi) == [1..2 -> [1..2 -> lo..hi]]
TensorTs ==
    {Arr(<<<<1, 1>>, <<1, 1>>>>, 4), Arr(<<<<2, 0>>, <<0, 2>>>>, 4),
     Arr(<<<<0, 2>>, <<2, 0>>>>, 4), Arr(<<<<1, 0>>, <<0, 0>>>>, 1),
     Arr(<<<<0, 3>>, <<1, 0>>>>, 4)}

InitTensor ==
    /\ driver = "adjusted"
    /\ loss_fun = "square_loss"
    /\ alpha_linear = Num(0, 1)
    /\ max_iter = 1
    /\ tol = Num(1, 4)
    /\ log_on = FALSE
    /\ np_err = "warn"
    /\ heap \in {[Heap0(Arr(<<<<0, 0>>, <<0, 0>>>>, 1))
                    EXCEPT !.C1 = Arr(a, 1), !.C2 = Arr(b, 1)] :
                 a \in SquareMats(-1, MaxC), b \in SquareMats(0, MaxC)}
    /\ binding = Unbound
    /\ T \in TensorTs
    /\ Tprev = NoArr
    /\ cpt = 0
    /\ err = Num(0, 1)
    /\ log = <<>>
    /\ pc = "t_entry"
    /\ fault = "none"
    /\ result = NoArr
    /\ calls = 0
    /\ tensors = 0
    /\ solver_in = NoArr
    /\ solver_out = NoArr
    /\ nan_in = FALSE
    /\ checked = <<>>
    /\ entered = 0

\* tens = tensor_square_loss_mine(C1, C2, T)
TensorCall ==
    /\ pc = "t_entry"
    /\ heap' = [heap EXCEPT !.tens = tensor_square_loss_mine(heap.C1, heap.C2, T)]
    /\ binding' = [binding EXCEPT !.tens = "tens"]
    /\ tensors' = tensors + 1
    /\ pc' = "t_done"
    /\ UNCHANGED <<inputs, T, Tprev, cpt, err, log, fault, result, calls,
                   solver_in, solver_out, nan_in, checked, entered>>

\* the min-shift applied to the returned tensor
ShiftAgain ==
    /\ pc = "t_done"
    /\ heap' = [heap EXCEPT !.tens_all = min_shift(heap.tens)]
    /\ binding' = [binding EXCEPT !.tens_all = "tens_all"]
    /\ pc' = "t_shifted"
    /\ UNCHANGED <<inputs, T, Tprev, cpt, err, log, fault, result, ghosts>>

NextTensor == TensorCall \/ ShiftAgain

SpecTensor == InitTensor /\ [][NextTensor]_vars

----------------------------------------------------------------------------
(* Properties *)

LinearShortcutCall == driver = "norm" /\ NumEq(alpha_linear, One)
ZeroMaxCost == IMax(heap.cost_mat.n) = 0
NoErrorAtMostTol == \A k \in DOMAIN checked : ~Le(checked[k], tol)
AllErrorsAboveTol == \A k \in DOMAIN checked : Gt(checked[k], tol)
LastChecked ==
    IF checked = <<>> THEN Num(ErrSentinel, 1) ELSE checked[Len(checked)]
IsPrefix(s, t) == Len(s) <= Len(t) /\ \A k \in DOMAIN s : s[k] = t[k]

\* the inputs on which the sentinel err = 1 exceeds tol and the maximum of
\* cost_mat is positive
OrdinaryInputs == Gt(Num(ErrSentinel, 1), tol) /\ ~ZeroMaxCost

\* C1, as claimed (stated on the ordinary inputs): with loss_fun =
\* 'square_loss' a driver never makes more than max_iter solver invocations,
\* and a call that returns with no checked error <= tol made exactly max_iter
\* invocations and returns the last one's coupling.
C1_AsClaimed ==
    (loss_fun = "square_loss" /\ OrdinaryInputs) =>
        /\ calls <= max_iter
        /\ (pc = "done" /\ NoErrorAtMostTol) =>
               (calls = max_iter /\ result = solver_out /\ fault = "none")

\* a bound on the number of steps a call still takes: every step lowers it,
\* so every call ends
StepsLeft ==
    CASE pc = "entry" -> 6 * max_iter + 7
      [] pc = "while" -> 6 * (max_iter - cpt) + 5
      [] pc = "body" -> 6 * (max_iter - cpt) + 4
      [] pc = "blend" -> 6 * (max_iter - cpt) + 3
      [] pc = "solve" -> 6 * (max_iter - cpt) + 2
      [] pc = "check" -> 6 * (max_iter - cpt) + 1
      [] pc = "shortcut" -> 2
      [] pc = "return" -> 1
      [] OTHER -> 0

\* the call is at a position from which a step of the driver is possible
CanStep ==
    CASE pc \in {"entry", "while", "body", "check", "return"} -> TRUE
      [] pc = "blend" -> driver \in {"adjusted", "norm"}
      [] pc = "shortcut" ->
            sinkhorn(heap.p, heap.q, heap[binding.cost_mat_norm]) # {}
      [] pc = "solve" ->
            \/ binding[solver_arg] = "unbound"
            \/ sinkhorn(heap.p, heap.q, heap[binding[solver_arg]]) # {}
      [] OTHER -> FALSE

C1_Bounded ==
    loss_fun = "square_loss" =>
        /\ calls <= max_iter
        /\ (pc = "done" /\ LinearShortcutCall) => calls = 1
        /\ (pc = "done" /\ checked # <<>> /\ AllErrorsAboveTol) =>
               (calls = max_iter /\ result = solver_out /\ fault = "none")

\* C1, amended: every call ends (returns or faults), with loss_fun =
\* 'square_loss' after at most max_iter solver invocations; the alpha_linear = 1
\* shortcut of the norm driver makes exactly one; and a call that returns
\* having checked at least one error, every one of them > tol, made exactly
\* max_iter invocations and returns the last one's coupling, without a fault.
C1_Amended ==
    /\ [](C1_Bounded /\ StepsLeft >= 0 /\ (pc \in {"done", "fault"} \/ CanStep))
    /\ [][StepsLeft' < StepsLeft]_vars

C1_Witness ==
    /\ pc = "done" /\ loss_fun = "square_loss" /\ ~LinearShortcutCall
    /\ Len(checked) = 2 /\ AllErrorsAboveTol
    /\ calls = max_iter /\ max_iter > CheckEvery

\* C2: the norm driver with alpha_linear = 1 builds no tensor, never enters
\* the loop, appends nothing to the log, and returns the output of its one
\* solver invocation, made on the normalized linear cost, for every
\* loss_fun, max_iter and tol.
C2_Shortcut ==
    LinearShortcutCall =>
        /\ tensors = 0 /\ entered = 0 /\ log = <<>> /\ checked = <<>>
        /\ calls <= 1
        /\ pc \in {"entry", "shortcut", "return", "done"}
        /\ pc \in {"return", "done"} =>
              /\ calls = 1
              /\ T = solver_out
              /\ solver_in = IF divide_raises(heap.cost_mat, np_err)
                             THEN heap.cost_mat
                             ELSE divide_by_max(heap.cost_mat)
        /\ pc = "done" => result = solver_out

C2_Witness ==
    /\ LinearShortcutCall /\ pc = "done" /\ calls = 1
    /\ loss_fun = "kl_loss" /\ max_iter > 1 /\ log_on /\ ~ZeroMaxCost

\* C3: with logging enabled, log['err'] never holds more than
\* max_iter / 10 + 1 entries (integer division).
C3_LogBound == log_on => Len(log) <= (max_iter \div 10) + 1

C3_Witness ==
    /\ pc = "done" /\ log_on
    /\ Len(log) = 2 /\ Len(log) = (max_iter \div 10) + 1

C5_AsClaimed ==
    (driver = "norm" /\ ZeroMaxCost) =>
        /\ ~nan_in
        /\ binding.cost_mat_norm \in {"unbound", "cost_mat"}
        /\ fault # "FloatingPointError"

\* C6, as claimed: in the adjusted and combined drivers a cost_mat whose
\* maximum is zero ends the call in a fault before any solver invocation.
C6_AsClaimed ==
    (driver \in {"adjusted", "combined"} /\ ZeroMaxCost) =>
        /\ calls = 0
        /\ pc \in {"entry", "fault"}

\* C7: no step of a driver changes C1, C2, cost_mat, p or q, and the log
\* only grows by appending.
C7_InputsUntouched ==
    [][CallerOwned(heap') = CallerOwned(heap) /\ IsPrefix(log, log')]_vars

C7_Witness ==
    /\ pc = "done" /\ driver = "adjusted" /\ ~ZeroMaxCost
    /\ cpt >= 2 /\ Len(log) >= 1 /\ ~NumEq(alpha_linear, Num(0, 1))
    /\ binding.tens = "tens"

\* entry (i, j) of -(C1 . T) . C2^T, times the denominator of T
RawEntry(i, j) ==
    -SumTo([k \in 1..2 |->
              SumTo([l \in 1..2 |-> heap.C1.n[i][k] * T.n[k][l] * heap.C2.n[j][l]], 2)],
           2)
RawMin == CHOOSE m \in {RawEntry(i, j) : i, j \in 1..2} :
             \A i, j \in 1..2 : m <= RawEntry(i, j)

\* C8: the tensor returned by tensor_square_loss_mine is -(C1 . T) . C2^T
\* minus its global minimum: its minimum entry is 0, no entry is negative,
\* and shifting it by its minimum again changes nothing.
C8_MinShift ==
    pc \in {"t_done", "t_shifted"} =>
        /\ ~heap.tens.nan
        /\ \A i, j \in 1..2 :
              /\ heap.tens.n[i][j] * T.d = (RawEntry(i, j) - RawMin) * heap.tens.d
              /\ heap.tens.n[i][j] >= 0
        /\ \E i, j \in 1..2 : heap.tens.n[i][j] = 0
        /\ pc = "t_shifted" => ArrEq(heap.tens_all, heap.tens)

C8_Witness ==
    /\ pc = "t_shifted" /\ RawMin < 0
    /\ \E i, j \in 1..2 : RawEntry(i, j) > 0
    /\ heap.C2.n[1][2] # heap.C2.n[2][1]

C9_Recomputed ==
    /\ pc \in {"while", "return", "done"} => Len(checked) = (cpt + 9) \div 10
    /\ pc \notin {"entry", "fault"} => err = LastChecked

\* C9, as claimed (stated on the ordinary inputs): the error is recomputed
\* exactly in the iterations whose counter is a multiple of 10 and kept
\* otherwise; a call that returns after fewer than max_iter iterations has
\* performed 10k+1 iterations and returns the coupling whose measured error
\* against its predecessor was <= tol.
C9_AsClaimed ==
    /\ C9_Recomputed
    /\ (pc = "done" /\ cpt < max_iter /\ OrdinaryInputs) =>
          /\ cpt % 10 = 1
          /\ Le(err, tol)
          /\ err = Norm(Minus(result, Tprev))

\* C9, amended: the error is recomputed exactly in the iterations whose
\* counter is a multiple of 10 and kept otherwise; a call that returns after
\* entering the loop and performing fewer than max_iter iterations has
\* performed 10k+1 iterations and returns the coupling whose measured error
\* against its predecessor was not > tol (<= tol, or NaN); a call that
\* returns without entering the loop has performed no iteration.
C9_Amended ==
    /\ C9_Recomputed
    /\ (pc = "done" /\ cpt < max_iter /\ entered > 0) =>
          /\ cpt % 10 = 1
          /\ ~Gt(err, tol)
          /\ err = Norm(Minus(result, Tprev))
    /\ (pc = "done" /\ entered = 0) => cpt = 0

C9_Witness ==
    /\ pc = "done" /\ cpt = CheckEvery + 1 /\ cpt < max_iter
    /\ Le(err, tol) /\ Len(checked) = 2

\* C10, as claimed: with loss_fun = 'square_loss' a call that returns has
\* invoked the solver at least once and returns a solver output.
C10_AsClaimed ==
    (loss_fun = "square_loss" /\ pc = "done") =>
        (calls >= 1 /\ result = solver_out)

====
